---- MODULE Spec2Model ----
(***************************************************************************)
(* A model of the csv decoder (src/decoder.go): the Decoder session        *)
(* (NewDecoder, SetAssignFn, ReadHeader, Decode), the row binder           *)
(* unmarshall with its field resolver fieldIndex, and the default assign   *)
(* functions.                                                              *)
(*                                                                         *)
(* Strings are sequences of one-character strings, so that parsing and     *)
(* splitting are computed the way the code computes them.  The kinds of    *)
(* the modelled record shapes are string, int8, int64, uint8, bool and     *)
(* struct (time.Time and one other struct type); the float kinds are not   *)
(* among them.                                                             *)
(***************************************************************************)
EXTENDS Integers, Sequences, FiniteSets, TLC

(* ------------------------------------------------------------------ *)
(* Bounds of the model                                                  *)
(* ------------------------------------------------------------------ *)

\* longest row the reader hands out
MaxRowLen == 3

\* largest value of the line counter a session is followed to
MaxLine == 3

(* ------------------------------------------------------------------ *)
(* Strings                                                              *)
(* ------------------------------------------------------------------ *)

Empty == << >>

Digits == {"0", "1", "2", "3", "4", "5", "6", "7", "8", "9"}

DigitVal(c) ==
    CASE c = "0" -> 0 [] c = "1" -> 1 [] c = "2" -> 2 [] c = "3" -> 3
      [] c = "4" -> 4 [] c = "5" -> 5 [] c = "6" -> 6 [] c = "7" -> 7
      [] c = "8" -> 8 [] c = "9" -> 9

AllDigits(s) == \A i \in 1..Len(s) : s[i] \in Digits

RECURSIVE DecVal(_)
DecVal(s) ==
    IF s = Empty THEN 0
    ELSE 10 * DecVal(SubSeq(s, 1, Len(s) - 1)) + DigitVal(s[Len(s)])

\* strings.Split(s, sep) for a one-character separator: the pieces between
\* the separators, in order; a string without separator is its own piece.
RECURSIVE Split(_, _)
Split(s, sep) ==
    IF \E i \in 1..Len(s) : s[i] = sep
    THEN LET i == CHOOSE j \in 1..Len(s) :
                      /\ s[j] = sep
                      /\ \A k \in 1..(j - 1) : s[k] # sep
         IN  <<SubSeq(s, 1, i - 1)>> \o Split(SubSeq(s, i + 1, Len(s)), sep)
    ELSE <<s>>

(* ------------------------------------------------------------------ *)
(* Errors                                                               *)
(* ------------------------------------------------------------------ *)

Nil == [k |-> "nil"]

\* io.EOF, and some other error of the reader
EOF == [k |-> "EOF"]
ErrIO == [k |-> "io"]

ErrUseDefault == [k |-> "ErrUseDefault"]

\* errors of strconv and time: every fresh error value is its message
ErrSyntax == [k |-> "syntax"]
ErrOverflow == [k |-> "overflow"]
ErrTimeParse == [k |-> "time"]
ErrMissingFormat == [k |-> "missing format info in tag"]
ErrUnsupportedStruct == [k |-> "unsupported struct type"]
ErrCustom == [k |-> "err!"]

ErrNotPointer == [k |-> "csv: dst is not a pointer"]
ErrNilDst == [k |-> "csv: dst is nil"]
ErrFieldCount == [k |-> "csv: struct field count didn't match data column count"]

\* fmt.Errorf("...%v", ...) makes a new error, which is none of the
\* sentinels, around the text of its cause
ErrAssign(name, cause) == [k |-> "assign", field |-> name, cause |-> cause]
ErrUnassignable(name, kind) == [k |-> "unassignable", field |-> name, kind |-> kind]
ErrLine(line, cause) == [k |-> "line", line |-> line, cause |-> cause]

(* ------------------------------------------------------------------ *)
(* Kinds, types and values of record fields                             *)
(* ------------------------------------------------------------------ *)

Kinds == {"string", "int8", "int64", "uint8", "bool", "struct"}

\* reflect.Value.Kind() of a field of the given type
KindOf(type) ==
    IF type \in {"time.Time", "struct{}"} THEN "struct" ELSE type

\* v.Type().Bits() of the integer kinds
Bits(type) == IF type = "int64" THEN 64 ELSE 8

\* the zero time.Time{} (January 1, year 1)
ZeroTime == [y |-> 1, m |-> 1, d |-> 1]

\* the zero value of a field of the given type
ZeroValue(type) ==
    CASE type = "string" -> Empty
      [] type \in {"int8", "int64", "uint8"} -> 0
      [] type = "bool" -> FALSE
      [] type = "time.Time" -> ZeroTime
      [] type = "struct{}" -> [unit |-> TRUE]

(* ------------------------------------------------------------------ *)
(* strconv and time                                                     *)
(* ------------------------------------------------------------------ *)

\* strconv.ParseInt(s, 10, 64): an optional sign, then decimal digits.  The
\* texts of the model have fewer than ten digits, so the value always fits
\* 64 bits and strconv's range error does not arise.
ParseInt(s) ==
    LET signed == s # Empty /\ Head(s) \in {"+", "-"}
        body == IF signed THEN Tail(s) ELSE s
    IN  IF body = Empty \/ ~AllDigits(body) THEN [err |-> ErrSyntax, n |-> 0]
        ELSE IF signed /\ Head(s) = "-" THEN [err |-> Nil, n |-> 0 - DecVal(body)]
        ELSE [err |-> Nil, n |-> DecVal(body)]

\* strconv.ParseUint(s, 10, 64): decimal digits, no sign
ParseUint(s) ==
    IF s = Empty \/ ~AllDigits(s) THEN [err |-> ErrSyntax, n |-> 0]
    ELSE [err |-> Nil, n |-> DecVal(s)]

\* reflect.Value.OverflowInt / OverflowUint for the width of the field; a
\* parsed 64-bit value always fits a 64-bit field
OverflowInt(type, n) ==
    /\ Bits(type) < 64
    /\ (n < 0 - 2^(Bits(type) - 1) \/ n > 2^(Bits(type) - 1) - 1)

OverflowUint(type, n) == Bits(type) < 64 /\ n > 2^Bits(type) - 1

IsLeap(y) == (y % 4 = 0) /\ ((y % 100 # 0) \/ (y % 400 = 0))

DaysIn(m, y) ==
    IF m = 2 THEN (IF IsLeap(y) THEN 29 ELSE 28)
    ELSE IF m \in {4, 6, 9, 11} THEN 30 ELSE 31

HasPrefix(s, p) == Len(s) >= Len(p) /\ SubSeq(s, 1, Len(p)) = p

StdLongYear == <<"2", "0", "0", "6">>
StdZeroMonth == <<"0", "1">>
StdZeroDay == <<"0", "2">>

\* time.Parse over layouts made of the elements 2006, 01 and 02 and of
\* literal characters: each element takes that many digits of the value, a
\* literal has to be matched, and nothing may be left of the value.
RECURSIVE ParseLayout(_, _, _)
ParseLayout(layout, value, acc) ==
    IF layout = Empty
    THEN IF value = Empty THEN [err |-> Nil, t |-> acc]
         ELSE [err |-> ErrTimeParse, t |-> ZeroTime]
    ELSE IF HasPrefix(layout, StdLongYear)
    THEN IF Len(value) >= 4 /\ AllDigits(SubSeq(value, 1, 4))
         THEN ParseLayout(SubSeq(layout, 5, Len(layout)), SubSeq(value, 5, Len(value)),
                          [acc EXCEPT !.y = DecVal(SubSeq(value, 1, 4))])
         ELSE [err |-> ErrTimeParse, t |-> ZeroTime]
    ELSE IF HasPrefix(layout, StdZeroMonth) \/ HasPrefix(layout, StdZeroDay)
    THEN IF Len(value) >= 2 /\ AllDigits(SubSeq(value, 1, 2))
         THEN ParseLayout(SubSeq(layout, 3, Len(layout)), SubSeq(value, 3, Len(value)),
                          IF HasPrefix(layout, StdZeroMonth)
                          THEN [acc EXCEPT !.m = DecVal(SubSeq(value, 1, 2))]
                          ELSE [acc EXCEPT !.d = DecVal(SubSeq(value, 1, 2))])
         ELSE [err |-> ErrTimeParse, t |-> ZeroTime]
    ELSE IF value # Empty /\ Head(value) = Head(layout)
    THEN ParseLayout(Tail(layout), Tail(value), acc)
    ELSE [err |-> ErrTimeParse, t |-> ZeroTime]

\* time.Parse(layout, value): the elements, then the range of month and day
TimeParse(layout, value) ==
    LET r == ParseLayout(layout, value, [y |-> 0, m |-> 1, d |-> 1])
    IN  IF r.err # Nil THEN r
        ELSE IF r.t.m < 1 \/ r.t.m > 12 \/ r.t.d < 1 \/ r.t.d > DaysIn(r.t.m, r.t.y)
             THEN [err |-> ErrTimeParse, t |-> ZeroTime]
             ELSE r

(* ------------------------------------------------------------------ *)
(* The default assign functions                                         *)
(*   an assign function gets the text s, the field v (its type and the  *)
(*   value it holds) and the field's csv tag, and gives back an error   *)
(*   and the value the field holds afterwards                           *)
(* ------------------------------------------------------------------ *)

assignString(s, v, tag) == [err |-> Nil, val |-> s]

assignInt(s, v, tag) ==
    IF s = Empty THEN [err |-> Nil, val |-> 0]
    ELSE LET p == ParseInt(s)
         IN  IF p.err # Nil THEN [err |-> p.err, val |-> v.val]
             ELSE IF OverflowInt(v.type, p.n) THEN [err |-> ErrOverflow, val |-> v.val]
             ELSE [err |-> Nil, val |-> p.n]

assignUint(s, v, tag) ==
    IF s = Empty THEN [err |-> Nil, val |-> 0]
    ELSE LET p == ParseUint(s)
         IN  IF p.err # Nil THEN [err |-> p.err, val |-> v.val]
             ELSE IF OverflowUint(v.type, p.n) THEN [err |-> ErrOverflow, val |-> v.val]
             ELSE [err |-> Nil, val |-> p.n]

assignStruct(s, v, tag) ==
    IF v.type = "time.Time"
    THEN IF s = Empty THEN [err |-> Nil, val |-> ZeroTime]
         ELSE LET split == Split(tag, ",")
              IN  IF Len(split) > 1
                  THEN LET p == TimeParse(split[2], s)
                       IN  IF p.err # Nil THEN [err |-> p.err, val |-> v.val]
                           ELSE [err |-> Nil, val |-> p.t]
                  ELSE [err |-> ErrMissingFormat, val |-> v.val]
    ELSE [err |-> ErrUnsupportedStruct, val |-> v.val]

(* ------------------------------------------------------------------ *)
(* Assign functions of callers, and calling an assign function          *)
(* ------------------------------------------------------------------ *)

\* a custom function that fails: it returns an error of its own
errFn(s, v, tag) == [err |-> ErrCustom, val |-> v.val]

\* a custom function that defers: it returns ErrUseDefault, the field untouched
useDefaultFn(s, v, tag) == [err |-> ErrUseDefault, val |-> v.val]

\* a custom function that returns the value io.EOF as its error
eofFn(s, v, tag) == [err |-> EOF, val |-> v.val]

DefaultFns == {"assignString", "assignInt", "assignUint", "assignStruct"}
CustomFns == {"errFn", "useDefaultFn", "eofFn"}

\* the call a(s, v, f.Tag) of the AssignFn named fn
Call(fn, s, v, tag) ==
    CASE fn = "assignString" -> assignString(s, v, tag)
      [] fn = "assignInt" -> assignInt(s, v, tag)
      [] fn = "assignUint" -> assignUint(s, v, tag)
      [] fn = "assignStruct" -> assignStruct(s, v, tag)
      [] fn = "errFn" -> errFn(s, v, tag)
      [] fn = "useDefaultFn" -> useDefaultFn(s, v, tag)
      [] fn = "eofFn" -> eofFn(s, v, tag)

\* the map getDefaultAssigners() builds: a registry is a function from the
\* kinds it has an entry for to the names of their assign functions
getDefaultAssigners ==
    [kind \in {"string", "struct", "int8", "int64", "uint8"} |->
        CASE kind = "string" -> "assignString"
          [] kind = "struct" -> "assignStruct"
          [] kind \in {"int8", "int64"} -> "assignInt"
          [] kind = "uint8" -> "assignUint"]

(* ------------------------------------------------------------------ *)
(* State                                                                *)
(* ------------------------------------------------------------------ *)

VARIABLES
    heap,       \* the assigner maps allocated so far: map id -> registry
    decoders,   \* the sessions: decoder id -> Decoder (absent until NewDecoder)
    reads,      \* decoder id -> number of Read calls issued to its Reader
    target,     \* the caller's record, which Decode is handed a pointer to
    ret,        \* what the last call of the session interface returned
    panicked,   \* a run-time panic has ended the program
    arg,        \* the arguments of a call of unmarshall
    out,        \* the result of that call
    pc          \* "call" before the call of unmarshall, "done" after it

vars == <<heap, decoders, reads, target, ret, panicked, arg, out, pc>>

\* the package variable defaultAssigners is the first map allocated
DefaultMap == 0
defaultAssigners == heap[DefaultMap]

\* a map[string]int: nil, or a function from the names it holds
NilIndexes == [nil |-> TRUE, m |-> [name \in {} |-> 0]]
MakeIndexes(m) == [nil |-> FALSE, m |-> m]

(* ------------------------------------------------------------------ *)
(* fieldIndex and unmarshall                                            *)
(*   a struct field f is [Name, Type, Tag], Tag the value of the csv    *)
(*   key of its tag; dst is [ptr, fields, vals]                         *)
(* ------------------------------------------------------------------ *)

fieldIndex(f, indexes) ==
    LET name == IF f.Tag # Empty THEN Split(f.Tag, ",")[1] ELSE f.Name
    IN  IF name \in DOMAIN indexes.m THEN indexes.m[name] ELSE 0 - 1

\* a column-count check that lets a row longer than the record through
CountMismatchShortOnly(indexes, n, len) == indexes.nil /\ n > len

\* the check of the column count before the loop
CountMismatch(indexes, n, len) == indexes.nil /\ n # len

\* a resolver that reads the first column for every field in positional mode
DataIndexFirst(f, i, indexes) ==
    IF ~indexes.nil THEN fieldIndex(f, indexes) ELSE 0

\* the column of the row that field number i (from 0) takes its text from,
\* -1 for a field the loop skips
DataIndex(f, i, indexes) ==
    IF ~indexes.nil THEN fieldIndex(f, indexes) ELSE i

\* a fallback that never calls the default function
UseDefaultNever(kind, s, v, tag, r) == r

\* a fallback that takes a kind without default function as assigned
UseDefaultOrSkip(kind, s, v, tag, r) ==
    IF kind \in DOMAIN defaultAssigners
    THEN Call(defaultAssigners[kind], s, [v EXCEPT !.val = r.val], tag)
    ELSE [r EXCEPT !.err = Nil]

\* the fallback after a(s, v, f.Tag) returned ErrUseDefault: the default
\* function of the kind when there is one, else the error stays as it is
UseDefault(kind, s, v, tag, r) ==
    IF kind \in DOMAIN defaultAssigners
    THEN Call(defaultAssigners[kind], s, [v EXCEPT !.val = r.val], tag)
    ELSE r

\* the body of the loop after s and v are taken: the error unmarshall
\* returns for this field (Nil to go on) and the value the field then holds
AssignField(assigners, s, v, f) ==
    LET kind == KindOf(v.type)
    IN  IF kind \in DOMAIN assigners
        THEN LET r == Call(assigners[kind], s, v, f.Tag)
                 q == IF r.err = ErrUseDefault THEN UseDefault(kind, s, v, f.Tag, r)
                      ELSE r
             IN  IF q.err # Nil
                 THEN [err |-> ErrAssign(f.Name, q.err), val |-> q.val]
                 ELSE q
        ELSE [err |-> ErrUnassignable(f.Name, kind), val |-> v.val]

\* a loop that goes on to the next field whatever the last one returned
ReturnsNever(r) == FALSE

\* the return out of the loop after a field: on an error, at once
Returns(r) == r.err # Nil

\* the loop over the fields from number i on (fields are numbered from 0):
\* vals are the values of the fields so far, src the column each field was
\* read from so far (-1: none)
RECURSIVE Loop(_, _, _, _, _, _)
Loop(i, data, indexes, assigners, dst, st) ==
    IF i >= Len(dst.fields) THEN [st EXCEPT !.err = Nil]
    ELSE LET f == dst.fields[i + 1]
             dataIndex == DataIndex(f, i, indexes)
         IN  IF ~indexes.nil /\ dataIndex = 0 - 1
             THEN Loop(i + 1, data, indexes, assigners, dst, st)
             ELSE IF dataIndex < 0 \/ dataIndex >= Len(data)
             THEN [st EXCEPT !.panic = TRUE]
             ELSE LET r == AssignField(assigners, data[dataIndex + 1],
                                       [type |-> f.Type, val |-> st.vals[i + 1]], f)
                      st2 == [st EXCEPT !.vals[i + 1] = r.val, !.src[i + 1] = dataIndex]
                  IN  IF Returns(r) THEN [st2 EXCEPT !.err = r.err]
                      ELSE Loop(i + 1, data, indexes, assigners, dst, st2)

\* unmarshall(data, indexes, assigners, dst): the error returned, the values
\* of dst's fields afterwards, whether the call panicked instead of
\* returning, and the column each field was read from
unmarshall(data, indexes, assigners, dst) ==
    LET st0 == [err |-> Nil, vals |-> dst.vals, panic |-> FALSE,
                src |-> [i \in 1..Len(dst.vals) |-> 0 - 1]]
    IN  IF dst.ptr = "nonptr" THEN [st0 EXCEPT !.err = ErrNotPointer]
        ELSE IF dst.ptr = "nilptr" THEN [st0 EXCEPT !.err = ErrNilDst]
        ELSE IF CountMismatch(indexes, Len(dst.fields), Len(data))
             THEN [st0 EXCEPT !.err = ErrFieldCount]
             ELSE Loop(0, data, indexes, assigners, dst, st0)

(* ------------------------------------------------------------------ *)
(* Record shapes, rows and registries the model draws from              *)
(* ------------------------------------------------------------------ *)

NameS == <<"S">>
NameI == <<"I">>
NameD == <<"D">>
NameB == <<"B">>
NameU == <<"U">>
TagS == <<"s">>
Layout == <<"2", "0", "0", "6", "-", "0", "1", "-", "0", "2">>
TagFormat == <<",">> \o Layout
TagDFormat == <<"d", ",">> \o Layout

Text7 == <<"7">>
TextDate == <<"1", "9", "8", "8", "-", "1", "1", "-", "0", "8">>

\* type thing struct { S string; I int8; D time.Time `csv:",2006-01-02"` }
thing ==
    << [Name |-> NameS, Type |-> "string", Tag |-> Empty],
       [Name |-> NameI, Type |-> "int8", Tag |-> Empty],
       [Name |-> NameD, Type |-> "time.Time", Tag |-> TagFormat] >>

\* type student struct { S string; I int8 }
student ==
    << [Name |-> NameS, Type |-> "string", Tag |-> Empty],
       [Name |-> NameI, Type |-> "int8", Tag |-> Empty] >>

\* type taggedThing struct { B bool; S string `csv:"s"` }
taggedThing ==
    << [Name |-> NameB, Type |-> "bool", Tag |-> Empty],
       [Name |-> NameS, Type |-> "string", Tag |-> TagS] >>

\* type timeThing struct { D time.Time `csv:"d,2006-01-02"`; U uint8 }
timeThing ==
    << [Name |-> NameD, Type |-> "time.Time", Tag |-> TagDFormat],
       [Name |-> NameU, Type |-> "uint8", Tag |-> Empty] >>

Shapes == {thing, taggedThing, timeThing}

\* a value of the type that no text of the model coerces to
OtherValue(type) ==
    CASE type = "string" -> <<"z">>
      [] type \in {"int8", "int64", "uint8"} -> 5
      [] type = "bool" -> TRUE
      [] type = "time.Time" -> [y |-> 2000, m |-> 2, d |-> 29]
      [] type = "struct{}" -> [unit |-> TRUE]

\* the records a caller hands in: fresh ones, and ones that hold values
Records(fields) ==
    { [i \in 1..Len(fields) |-> ZeroValue(fields[i].Type)],
      [i \in 1..Len(fields) |-> OtherValue(fields[i].Type)] }

Texts == {Empty, Text7, TextDate}

RowsOf(texts, maxlen) == UNION { [1..n -> texts] : n \in 0..maxlen }

Rows == RowsOf(Texts, MaxRowLen)

\* the names a header for a shape is made of: the declared names of its
\* fields and the names its tags give them
IndexNames(fields) ==
    UNION { {fields[i].Name, Split(fields[i].Tag, ",")[1]} : i \in 1..Len(fields) }
      \ {Empty}

\* the name indexes that hold at most two of a set of names, with columns
\* up to MaxRowLen - 1
IndexesOver(names) ==
    { MakeIndexes(m) :
        m \in UNION { [N -> 0..(MaxRowLen - 1)] :
                        N \in {X \in SUBSET names : Cardinality(X) <= 2} } }

\* registries: the default one, and the default one with one kind's entry
\* replaced by a custom function or taken out
Registries ==
    {getDefaultAssigners}
    \cup { [kind \in (DOMAIN getDefaultAssigners) \cup {k} |->
               IF kind = k THEN fn ELSE getDefaultAssigners[kind]] :
             k \in {"string", "int8", "struct", "bool"}, fn \in {"errFn", "useDefaultFn"} }
    \cup { [kind \in (DOMAIN getDefaultAssigners) \ {"string"} |->
               getDefaultAssigners[kind]] }

(* ------------------------------------------------------------------ *)
(* The Decoder                                                          *)
(*   a Decoder is [Indexes, assigners, line]: assigners is the id of    *)
(*   its map in the heap; its Reader r is the environment, which        *)
(*   answers each Read with a row or with an error                      *)
(* ------------------------------------------------------------------ *)

DecoderIds == {1, 2}

\* the first id the heap has no map under
NextMap(h) == CHOOSE id \in 0..Cardinality(DOMAIN h) : id \notin DOMAIN h

\* a Decoder that takes the package's default map for its own
NewMapShared(h) == [heap |-> h, id |-> DefaultMap]

\* assigners: getDefaultAssigners() in NewDecoder: a map of its own, with
\* the default entries
NewMap(h) ==
    [heap |-> h @@ (NextMap(h) :> getDefaultAssigners), id |-> NextMap(h)]

\* m[kind] = fn on a map
SetEntry(m, kind, fn) ==
    [k \in (DOMAIN m) \cup {kind} |-> IF k = kind THEN fn ELSE m[k]]

\* a ReadHeader that is refused only after the second line
HeaderRefusedLate(line) == line > 1

\* the guard of ReadHeader
HeaderRefused(line) == line > 0

ErrHeaderReuse == [k |-> "ReadHeader can only be called once, and only before Decode()"]

\* a header loop that keeps the first column of a name
BuildIndexesFirst(data) ==
    [name \in {data[i] : i \in 1..Len(data)} |->
        CHOOSE c \in 0..(Len(data) - 1) :
            /\ data[c + 1] = name
            /\ \A j \in 1..c : data[j] # name]

\* the loop of ReadHeader, this.Indexes[d] = i for i, d in data, in order:
\* each name ends up with the last column it stands in
BuildIndexes(data) ==
    [name \in {data[i] : i \in 1..Len(data)} |->
        CHOOSE c \in 0..(Len(data) - 1) :
            /\ data[c + 1] = name
            /\ \A j \in (c + 2)..Len(data) : data[j] # name]

\* what Decode returns after unmarshall returned err
DecodeError(line, err) ==
    IF err # Nil /\ err # EOF THEN ErrLine(line, err) ELSE Nil

\* the texts the Reader of a session hands out, and its rows and errors
SessionTexts == {NameS, Text7}
SessionRows == RowsOf(SessionTexts, MaxRowLen)
ReadErrors == {EOF, ErrIO}

ZeroRecord(fields) == [i \in 1..Len(fields) |-> ZeroValue(fields[i].Type)]

\* what a call leaves in ret: the call (op, and d, kind, fn where it has
\* them), the error it returned (err), and of what went on inside it the
\* error of the Read (rerr), the row read (data), the error of unmarshall
\* (bind) and whether it panicked instead of returning
NoCall == [op |-> "none", d |-> 0, kind |-> "", fn |-> "", err |-> Nil,
           rerr |-> Nil, data |-> << >>, bind |-> Nil, panic |-> FALSE]

NewDecoder(d) ==
    /\ ~panicked
    /\ d \notin DOMAIN decoders
    /\ LET new == NewMap(heap)
       IN  /\ heap' = new.heap
           /\ decoders' = decoders @@
                (d :> [Indexes |-> NilIndexes, assigners |-> new.id, line |-> 0])
    /\ reads' = reads @@ (d :> 0)
    /\ ret' = [NoCall EXCEPT !.op = "NewDecoder", !.d = d]
    /\ UNCHANGED <<target, panicked, arg, out, pc>>

SetAssignFn(d, kind, fn) ==
    /\ ~panicked
    /\ d \in DOMAIN decoders
    /\ heap' = [heap EXCEPT ![decoders[d].assigners] = SetEntry(@, kind, fn)]
    /\ ret' = [NoCall EXCEPT !.op = "SetAssignFn", !.d = d, !.kind = kind, !.fn = fn]
    /\ UNCHANGED <<decoders, reads, target, panicked, arg, out, pc>>

\* ReadHeader after the line counter has advanced
ReadHeaderRefused(d) ==
    /\ ~panicked
    /\ d \in DOMAIN decoders
    /\ HeaderRefused(decoders[d].line)
    /\ ret' = [NoCall EXCEPT !.op = "ReadHeader", !.d = d, !.err = ErrHeaderReuse]
    /\ UNCHANGED <<heap, decoders, reads, target, panicked, arg, out, pc>>

\* ReadHeader whose Read fails with err
ReadHeaderError(d, err) ==
    /\ ~panicked
    /\ d \in DOMAIN decoders
    /\ ~HeaderRefused(decoders[d].line)
    /\ decoders[d].line < MaxLine
    /\ decoders' = [decoders EXCEPT ![d].line = @ + 1]
    /\ reads' = [reads EXCEPT ![d] = @ + 1]
    /\ ret' = [NoCall EXCEPT !.op = "ReadHeader", !.d = d, !.err = err, !.rerr = err]
    /\ UNCHANGED <<heap, target, panicked, arg, out, pc>>

\* ReadHeader whose Read gives the row data
ReadHeaderRow(d, data) ==
    /\ ~panicked
    /\ d \in DOMAIN decoders
    /\ ~HeaderRefused(decoders[d].line)
    /\ decoders[d].line < MaxLine
    /\ decoders' = [decoders EXCEPT ![d].line = @ + 1,
                                    ![d].Indexes = MakeIndexes(BuildIndexes(data))]
    /\ reads' = [reads EXCEPT ![d] = @ + 1]
    /\ ret' = [NoCall EXCEPT !.op = "ReadHeader", !.d = d, !.data = data]
    /\ UNCHANGED <<heap, target, panicked, arg, out, pc>>

\* Decode(&target) whose Read fails with err
DecodeReadError(d, err) ==
    /\ ~panicked
    /\ d \in DOMAIN decoders
    /\ decoders[d].line < MaxLine
    /\ decoders' = [decoders EXCEPT ![d].line = @ + 1]
    /\ reads' = [reads EXCEPT ![d] = @ + 1]
    /\ ret' = [NoCall EXCEPT !.op = "Decode", !.d = d, !.err = err, !.rerr = err]
    /\ UNCHANGED <<heap, target, panicked, arg, out, pc>>

\* Decode(&target) whose Read gives the row data: unmarshall binds the row
\* and either returns or panics on a column the row does not have
DecodeRow(d, data) ==
    /\ ~panicked
    /\ d \in DOMAIN decoders
    /\ decoders[d].line < MaxLine
    /\ \E r \in {unmarshall(data, decoders[d].Indexes, heap[decoders[d].assigners],
                            [ptr |-> "ptr", fields |-> target.fields, vals |-> target.vals])} :
           /\ target' = [target EXCEPT !.vals = r.vals]
           /\ panicked' = r.panic
           /\ ret' = IF r.panic
                     THEN [NoCall EXCEPT !.op = "Decode", !.d = d, !.data = data,
                             !.panic = TRUE]
                     ELSE [NoCall EXCEPT !.op = "Decode", !.d = d, !.data = data,
                             !.bind = r.err,
                             !.err = DecodeError(decoders[d].line + 1, r.err)]
    /\ decoders' = [decoders EXCEPT ![d].line = @ + 1]
    /\ reads' = [reads EXCEPT ![d] = @ + 1]
    /\ UNCHANGED <<heap, arg, out, pc>>

\* the caller declares a new record to decode into
NewTarget(fields) ==
    /\ ~panicked
    /\ target' = [fields |-> fields, vals |-> ZeroRecord(fields)]
    /\ ret' = [NoCall EXCEPT !.op = "NewTarget"]
    /\ UNCHANGED <<heap, decoders, reads, panicked, arg, out, pc>>

(* ------------------------------------------------------------------ *)
(* Specifications                                                       *)
(* ------------------------------------------------------------------ *)

InitSession ==
    /\ heap = <<>> @@ (DefaultMap :> getDefaultAssigners)
    /\ decoders = <<>>
    /\ reads = <<>>
    /\ target = [fields |-> student, vals |-> ZeroRecord(student)]
    /\ ret = NoCall
    /\ panicked = FALSE

\* SpecBind: one call of unmarshall on arguments of the caller's choice
InitBind ==
    /\ InitSession
    /\ \E fields \in Shapes, data \in Rows, assigners \in Registries :
         \E vals \in Records(fields),
            indexes \in {NilIndexes} \cup IndexesOver(IndexNames(fields)),
            ptr \in {"ptr"} \cup (IF assigners = getDefaultAssigners
                                  THEN {"nonptr", "nilptr"} ELSE {}) :
              arg = [data |-> data, indexes |-> indexes, assigners |-> assigners,
                     dst |-> [ptr |-> ptr, fields |-> fields, vals |-> vals]]
    /\ out = [op |-> "none"]
    /\ pc = "call"

Unmarshall ==
    /\ pc = "call"
    /\ out' = unmarshall(arg.data, arg.indexes, arg.assigners, arg.dst)
    /\ pc' = "done"
    /\ UNCHANGED <<heap, decoders, reads, target, ret, panicked, arg>>

NextBind == Unmarshall

SpecBind == InitBind /\ [][NextBind]_vars

\* Spec: one session, its Reader and the record of its caller
SessionShapes == {student, thing}
SessionFns == {"errFn", "eofFn"}

Init ==
    /\ InitSession
    /\ arg = [op |-> "none"]
    /\ out = [op |-> "none"]
    /\ pc = "session"

Next ==
    \/ NewDecoder(1)
    \/ \E fn \in SessionFns : SetAssignFn(1, "string", fn)
    \/ ReadHeaderRefused(1)
    \/ \E err \in ReadErrors : ReadHeaderError(1, err)
    \/ \E data \in SessionRows : ReadHeaderRow(1, data)
    \/ \E err \in ReadErrors : DecodeReadError(1, err)
    \/ \E data \in SessionRows : DecodeRow(1, data)
    \/ \E fields \in SessionShapes : NewTarget(fields)

Spec == Init /\ [][Next]_vars

\* SpecRegistry: two sessions and their registries
RegistryKinds == {"string", "bool"}
RegistryFns == {"errFn", "useDefaultFn"}

InitRegistry ==
    /\ InitSession
    /\ arg = [op |-> "none"]
    /\ out = [op |-> "none"]
    /\ pc = "registry"

NextRegistry ==
    \E d \in DecoderIds :
        \/ NewDecoder(d)
        \/ \E kind \in RegistryKinds, fn \in RegistryFns : SetAssignFn(d, kind, fn)

SpecRegistry == InitRegistry /\ [][NextRegistry]_vars

\* SpecAssign: one call of assignStruct on a field, text and tag of the
\* caller's choice
TextWasd == <<"w", "a", "s", "d">>
Text2014 == <<"2", "0", "1", "4", "-", "0", "1", "-", "0", "2">>
TextBadMonth == <<"1", "9", "8", "8", "-", "1", "3", "-", "0", "8">>

AssignTexts == {Empty, Text7, TextWasd, TextDate, Text2014, TextBadMonth}
AssignTags == {Empty, TagS, TagFormat, TagDFormat}

\* the values a time.Time field holds before the call: the zero time, the
\* times an earlier successful call left there, and another time
TimesBefore ==
    {ZeroTime, OtherValue("time.Time")}
      \cup {TimeParse(Layout, t).t : t \in {TextDate, Text2014}}

StructFields ==
    {[type |-> "time.Time", val |-> t] : t \in TimesBefore}
      \cup {[type |-> "struct{}", val |-> ZeroValue("struct{}")]}

InitAssign ==
    /\ InitSession
    /\ \E s \in AssignTexts, v \in StructFields, tag \in AssignTags :
         arg = [s |-> s, v |-> v, tag |-> tag]
    /\ out = [err |-> Nil, val |-> arg.v.val]
    /\ pc = "call"

CallAssignStruct ==
    /\ pc = "call"
    /\ out' = assignStruct(arg.s, arg.v, arg.tag)
    /\ pc' = "done"
    /\ UNCHANGED <<heap, decoders, reads, target, ret, panicked, arg>>

NextAssign == CallAssignStruct

SpecAssign == InitAssign /\ [][NextAssign]_vars

(* ------------------------------------------------------------------ *)
(* The call of unmarshall that SpecBind made                            *)
(* ------------------------------------------------------------------ *)

Called == pc = "done" /\ arg.dst.ptr = "ptr"

Fields == arg.dst.fields
Pre == arg.dst.vals
NumField == Len(arg.dst.fields)

\* the column the code resolves field i (from 1) to
Pos(i) == DataIndex(Fields[i], i - 1, arg.indexes)
Skipped(i) == ~arg.indexes.nil /\ Pos(i) = 0 - 1
InRange(i) == Pos(i) >= 0 /\ Pos(i) < Len(arg.data)

\* what assigning field i alone does to the value the field held before the call
Try(i) ==
    AssignField(arg.assigners, arg.data[Pos(i) + 1],
                [type |-> Fields[i].Type, val |-> Pre[i]], Fields[i])

\* bind gets as far as field k: the column count is accepted and the fields
\* before k are skipped or assigned
Reaches(k) ==
    /\ arg.indexes.nil => Len(arg.data) = NumField
    /\ \A j \in 1..(k - 1) : Skipped(j) \/ (InRange(j) /\ Try(j).err = Nil)

\* the coercion or the kind lookup of field k fails during bind
FailsAt(k) == Reaches(k) /\ ~Skipped(k) /\ InRange(k) /\ Try(k).err # Nil

\* the default coercion of the text s into field i
DefaultCoercion(i, s) ==
    Call(getDefaultAssigners[KindOf(Fields[i].Type)], s,
         [type |-> Fields[i].Type, val |-> Pre[i]], Fields[i].Tag)

HasDefault(i) == KindOf(Fields[i].Type) \in DOMAIN getDefaultAssigners

(* ------------------------------------------------------------------ *)
(* C1: in positional mode (no name index), a row whose length differs   *)
(* from the number of fields of the record makes unmarshall return the  *)
(* field-count-mismatch error, and every field of the target holds the  *)
(* value it had before the call.                                        *)
(* ------------------------------------------------------------------ *)
C1_FieldCountMismatch ==
    (Called /\ arg.indexes.nil /\ Len(arg.data) # NumField)
        => /\ out.err = ErrFieldCount
           /\ ~out.panic
           /\ out.vals = Pre

C1_Witness ==
    /\ Called /\ arg.indexes.nil
    /\ Len(arg.data) > NumField
    /\ Pre # [i \in 1..NumField |-> ZeroValue(Fields[i].Type)]
    /\ arg.data[1] # Empty
    /\ out.err = ErrFieldCount

(* ------------------------------------------------------------------ *)
(* C2: in positional mode, a row of length n bound to a record of n     *)
(* fields with the default registry: field i reads row position i and   *)
(* no other; when every default coercion succeeds, no error is returned *)
(* and every field i holds the default coercion of row[i].              *)
(* ------------------------------------------------------------------ *)
C2_Positional ==
    (Called /\ arg.indexes.nil /\ Len(arg.data) = NumField
            /\ arg.assigners = getDefaultAssigners)
        => /\ ~out.panic
           /\ \A i \in 1..NumField : out.src[i] \in {0 - 1, i - 1}
           /\ (\A i \in 1..NumField :
                   HasDefault(i) /\ DefaultCoercion(i, arg.data[i]).err = Nil)
                => /\ out.err = Nil
                   /\ \A i \in 1..NumField :
                        /\ out.src[i] = i - 1
                        /\ out.vals[i] = DefaultCoercion(i, arg.data[i]).val

C2_Witness ==
    /\ Called /\ arg.indexes.nil /\ arg.assigners = getDefaultAssigners
    /\ Fields = thing
    /\ arg.data = <<TextDate, Text7, TextDate>>
    /\ out.err = Nil
    /\ out.vals = <<TextDate, 7, [y |-> 1988, m |-> 11, d |-> 8]>>

(* ------------------------------------------------------------------ *)
(* C3: with a name index, every field whose resolved name (the override *)
(* name of its tag if that is not empty, else its declared name) is     *)
(* absent from the index keeps its value, and every field whose         *)
(* resolved name is in the index is coerced from the column the index   *)
(* maps the name to.  Stated for the calls that return no error, in     *)
(* which no field is left out for an earlier field's failure, and for   *)
(* the indexes all of whose columns the row has.                        *)
(* ------------------------------------------------------------------ *)
ResolvedName(f) ==
    LET override == Split(f.Tag, ",")[1]
    IN  IF override # Empty THEN override ELSE f.Name

IndexWithinRow ==
    \A name \in DOMAIN arg.indexes.m : arg.indexes.m[name] < Len(arg.data)

C3_NameIndex ==
    (Called /\ ~arg.indexes.nil /\ IndexWithinRow /\ ~out.panic /\ out.err = Nil)
        => \A i \in 1..NumField :
             IF ResolvedName(Fields[i]) \in DOMAIN arg.indexes.m
             THEN out.src[i] = arg.indexes.m[ResolvedName(Fields[i])]
             ELSE out.src[i] = 0 - 1 /\ out.vals[i] = Pre[i]

(* ------------------------------------------------------------------ *)
(* C6: binding with a registry whose entry for kind K is a custom       *)
(* function that always returns ErrUseDefault and does not touch the    *)
(* field gives the same error and the same target as binding with the   *)
(* registry in which K was never overridden.                            *)
(*   C6_Original: for every kind K.                                     *)
(*   C6_DeferEqualsDefault: for every kind K that has a default assign  *)
(*   function.                                                          *)
(* ------------------------------------------------------------------ *)
DefersKind(K) ==
    /\ K \in DOMAIN arg.assigners
    /\ arg.assigners[K] = "useDefaultFn"
    /\ \A kind \in Kinds \ {K} :
         /\ (kind \in DOMAIN arg.assigners) = (kind \in DOMAIN getDefaultAssigners)
         /\ kind \in DOMAIN arg.assigners => arg.assigners[kind] = getDefaultAssigners[kind]

SameAsNeverOverridden ==
    LET plain == unmarshall(arg.data, arg.indexes, getDefaultAssigners, arg.dst)
    IN  /\ out.err = plain.err
        /\ out.vals = plain.vals
        /\ out.panic = plain.panic

C6_Original ==
    \A K \in Kinds : (Called /\ DefersKind(K)) => SameAsNeverOverridden

C6_DeferEqualsDefault ==
    \A K \in DOMAIN getDefaultAssigners :
        (Called /\ DefersKind(K)) => SameAsNeverOverridden

C6_Witness ==
    /\ Called /\ DefersKind("string")
    /\ Fields = thing
    /\ arg.indexes.nil
    /\ out.err = Nil
    /\ out.vals[1] = Text7
    /\ Pre[1] # Text7

(* ------------------------------------------------------------------ *)
(* C7: when the coercion or the kind lookup of field k fails during     *)
(* bind, the error returned names field k, every field before k that    *)
(* was resolved holds its newly coerced value, and the fields after k   *)
(* are not coerced and hold the values they had before the call.        *)
(* ------------------------------------------------------------------ *)
C7_FailFast ==
    \A k \in 1..(IF Called THEN NumField ELSE 0) :
        FailsAt(k)
          => /\ ~out.panic
             /\ out.err.k \in {"assign", "unassignable"}
             /\ out.err.field = Fields[k].Name
             /\ \A j \in 1..(k - 1) :
                  IF Skipped(j) THEN out.vals[j] = Pre[j]
                  ELSE out.src[j] = Pos(j) /\ out.vals[j] = Try(j).val
             /\ \A j \in (k + 1)..NumField :
                  out.src[j] = 0 - 1 /\ out.vals[j] = Pre[j]

C7_Witness ==
    /\ Called /\ Fields = thing /\ arg.indexes.nil
    /\ arg.assigners = getDefaultAssigners
    /\ arg.data = <<Text7, TextDate, TextDate>>
    /\ FailsAt(2)
    /\ out.err = ErrAssign(NameI, ErrSyntax)
    /\ out.vals[1] = Text7 /\ Pre[1] # Text7
    /\ out.vals[3] = Pre[3]

(* ------------------------------------------------------------------ *)
(* C10: a registered function for the kind of field k returns           *)
(* ErrUseDefault and the default registry has no function for the kind. *)
(*   C10_Original: bind leaves the field unmodified, reports no error   *)
(*   for it and goes on to the remaining fields.                        *)
(*   C10_DeferWithoutDefault: bind leaves the field unmodified, returns *)
(*   the assign error that names the field and carries ErrUseDefault,   *)
(*   and does not go on to the remaining fields.                        *)
(* ------------------------------------------------------------------ *)
DefersWithoutDefault(k) ==
    /\ Reaches(k) /\ ~Skipped(k) /\ InRange(k)
    /\ KindOf(Fields[k].Type) \in DOMAIN arg.assigners
    /\ arg.assigners[KindOf(Fields[k].Type)] = "useDefaultFn"
    /\ KindOf(Fields[k].Type) \notin DOMAIN defaultAssigners

C10_Original ==
    \A k \in 1..(IF Called THEN NumField ELSE 0) :
        DefersWithoutDefault(k)
          => /\ out.vals[k] = Pre[k]
             /\ ~(out.err.k = "assign" /\ out.err.field = Fields[k].Name)
             /\ \A j \in (k + 1)..NumField :
                  (~Skipped(j) /\ InRange(j)) => out.src[j] = Pos(j)

C10_DeferWithoutDefault ==
    \A k \in 1..(IF Called THEN NumField ELSE 0) :
        DefersWithoutDefault(k)
          => /\ out.vals[k] = Pre[k]
             /\ out.err = ErrAssign(Fields[k].Name, ErrUseDefault)
             /\ ~out.panic
             /\ \A j \in (k + 1)..NumField :
                  out.src[j] = 0 - 1 /\ out.vals[j] = Pre[j]

C10_Witness ==
    /\ Called /\ Fields = taggedThing /\ arg.indexes.nil
    /\ DefersWithoutDefault(1)
    /\ arg.data = <<Text7, Text7>>
    /\ Pre[2] # Text7
    /\ out.err = ErrAssign(NameB, ErrUseDefault)

(* ------------------------------------------------------------------ *)
(* C4: ReadHeader can succeed only as the first call that reads from    *)
(* the Reader; a ReadHeader call made after an earlier ReadHeader or    *)
(* Decode call (each of which issued a Read or came after one) returns  *)
(* an error, issues no Read, and leaves the name index and the line     *)
(* counter as they were.                                                *)
(* ------------------------------------------------------------------ *)
C4_HeaderOnlyFirst ==
    [][ret'.op = "ReadHeader"
         => /\ ret'.err = Nil => reads[ret'.d] = 0
            /\ reads[ret'.d] > 0
                 => /\ ret'.err = ErrHeaderReuse
                    /\ reads' = reads
                    /\ decoders' = decoders]_vars

C4_Witness ==
    /\ ret.op = "ReadHeader"
    /\ ret.err = ErrHeaderReuse
    /\ reads[1] = 2
    /\ decoders[1].Indexes = MakeIndexes(BuildIndexes(<<NameS, Text7>>))

(* ------------------------------------------------------------------ *)
(* C5: the name index ReadHeader builds from a header row.              *)
(*   C5_Original: a name that stands in several columns is mapped to    *)
(*   the first of them; a name that occurs once to its own column.      *)
(*   C5_LastOccurrence: a name that stands in several columns is        *)
(*   mapped to the last of them; a name that occurs once to its own     *)
(*   column; the index holds the names of the row and no others.        *)
(* ------------------------------------------------------------------ *)
HeaderRead == ret.op = "ReadHeader" /\ ret.err = Nil

C5_Original ==
    HeaderRead
      => \A i \in 1..Len(ret.data) :
           (\A j \in 1..(i - 1) : ret.data[j] # ret.data[i])
             => decoders[ret.d].Indexes.m[ret.data[i]] = i - 1

C5_LastOccurrence ==
    HeaderRead
      => /\ ~decoders[ret.d].Indexes.nil
         /\ DOMAIN decoders[ret.d].Indexes.m = {ret.data[i] : i \in 1..Len(ret.data)}
         /\ \A i \in 1..Len(ret.data) :
              (\A j \in (i + 1)..Len(ret.data) : ret.data[j] # ret.data[i])
                => decoders[ret.d].Indexes.m[ret.data[i]] = i - 1

C5_Witness ==
    /\ HeaderRead
    /\ ret.data = <<NameS, Text7, NameS>>
    /\ decoders[1].Indexes.m[NameS] = 2
    /\ decoders[1].Indexes.m[Text7] = 1

(* ------------------------------------------------------------------ *)
(* C8: every Decode call issues one Read and has exactly one of three   *)
(* outcomes: the Read fails, and Decode returns the Reader's error as   *)
(* it is and the target is not modified; the Read and the bind succeed, *)
(* and Decode returns nil; the bind fails, and Decode returns the       *)
(* binder's error wrapped once with the line number n, the number of    *)
(* Reads the session has issued so far.                                 *)
(* ------------------------------------------------------------------ *)
C8_DecodeOutcomes ==
    [][ret'.op = "Decode"
         => /\ reads'[ret'.d] = reads[ret'.d] + 1
            /\ \/ /\ ret'.rerr # Nil
                  /\ ret'.err = ret'.rerr
                  /\ target' = target
               \/ /\ ret'.rerr = Nil /\ ~ret'.panic
                  /\ ret'.bind = Nil
                  /\ ret'.err = Nil
               \/ /\ ret'.rerr = Nil /\ ~ret'.panic
                  /\ ret'.bind # Nil
                  /\ ret'.err = ErrLine(reads'[ret'.d], ret'.bind)]_vars

(* ------------------------------------------------------------------ *)
(* C9: SetAssignFn(K, fn) on one session changes that session's entry   *)
(* for kind K and nothing else: its entries for the other kinds, the    *)
(* package's default registry and the registry of every other session   *)
(* are as before.                                                       *)
(* ------------------------------------------------------------------ *)
Registry(ds, h, d) == h[ds[d].assigners]

C9_SetAssignFnFrame ==
    [][ret'.op = "SetAssignFn"
         => /\ heap'[DefaultMap] = heap[DefaultMap]
            /\ \A e \in (DOMAIN decoders) \ {ret'.d} :
                 Registry(decoders', heap', e) = Registry(decoders, heap, e)
            /\ \A k \in Kinds \ {ret'.kind} :
                 /\ (k \in DOMAIN Registry(decoders', heap', ret'.d))
                      = (k \in DOMAIN Registry(decoders, heap, ret'.d))
                 /\ k \in DOMAIN Registry(decoders, heap, ret'.d)
                      => Registry(decoders', heap', ret'.d)[k]
                           = Registry(decoders, heap, ret'.d)[k]
            /\ Registry(decoders', heap', ret'.d)[ret'.kind] = ret'.fn]_vars

C9_Witness ==
    /\ DOMAIN decoders = {1, 2}
    /\ ret.op = "SetAssignFn" /\ ret.d = 1 /\ ret.kind = "string" /\ ret.fn = "errFn"
    /\ Registry(decoders, heap, 1)["string"] = "errFn"
    /\ Registry(decoders, heap, 2) = getDefaultAssigners
    /\ defaultAssigners = getDefaultAssigners

(* ------------------------------------------------------------------ *)
(* C11: when the default coercion of a time.Time field fails on a       *)
(* non-empty text (the text does not match the format of the tag, or    *)
(* the tag has no format), the field holds the zero time after the      *)
(* call, whatever it held before, a time left by an earlier successful  *)
(* call included.                                                       *)
(* ------------------------------------------------------------------ *)
TimeCoercionFailed ==
    /\ pc = "done"
    /\ arg.v.type = "time.Time"
    /\ arg.s # Empty
    /\ out.err \in {ErrTimeParse, ErrMissingFormat}

C11_ZeroTimeOnError == TimeCoercionFailed => out.val = ZeroTime

(* ------------------------------------------------------------------ *)
(* C12: bind never reads a row position outside 0..len(row)-1: when the *)
(* name index of the session maps the resolved name of a field of the   *)
(* target to a position at or beyond the length of the row that Decode  *)
(* read, Decode returns an error value instead of aborting.             *)
(* ------------------------------------------------------------------ *)
IndexBeyondRow ==
    /\ ret.op = "Decode"
    /\ ret.rerr = Nil
    /\ ~decoders[ret.d].Indexes.nil
    /\ \E i \in 1..Len(target.fields) :
         fieldIndex(target.fields[i], decoders[ret.d].Indexes) >= Len(ret.data)

C12_IndexBeyondRowIsError == IndexBeyondRow => (~ret.panic /\ ret.err # Nil)

====
